---- MODULE Spec2Model ----
(***************************************************************************)
(* Legal Sandbox API: the in-memory document store (documents_mem.py), the *)
(* request schemas (schemas.py), the application's route table (main.py)   *)
(* and the segment / analyze handlers of routes.py.                        *)
(*                                                                         *)
(* Strings are sequences of one-character strings.  A dict object lives in *)
(* heap under a reference; _STORE holds references, as in Python.          *)
(* The clock is datetime.now(timezone.utc), taken to be non-decreasing.    *)
(***************************************************************************)
EXTENDS Integers, Sequences, FiniteSets, TLC

VARIABLES STORE, NEXT_ID, heap, clock, resp, created, deleted, nDeleted,
          pc, local, nCalls, segText

vars == <<STORE, NEXT_ID, heap, clock, resp, created, deleted, nDeleted,
          pc, local, nCalls, segText>>

storeVars == <<STORE, NEXT_ID, heap>>
histVars == <<created, deleted, nDeleted>>
threadVars == <<pc, local, nCalls>>
segVars == <<segText>>

-----------------------------------------------------------------------------
(* Bounds *)

MaxCreates == 2
MaxClock == 1
MaxLen == 5
MaxCalls == 3

-----------------------------------------------------------------------------
(* Values *)

\* None for an omitted string field (no character is the string "None"), and
\* for an absent object (no reference is 0).
None == <<"None">>
NoRef == 0

Max(S) == CHOOSE x \in S : \A y \in S : y <= x

Rep(c, n) == [i \in 1..n |-> c]

\* schemas.py: Field(..., min_length=3, max_length=200), Field(..., min_length=1)
TitleMinLength == 3
TitleMaxLength == 200
TextMinLength == 1

\* Titles at and around both length limits.
T2 == <<"D", "o">>
T3 == <<"D", "o", "c">>
T200 == Rep("x", TitleMaxLength)
T201 == Rep("x", TitleMaxLength + 1)

ValidTitle(t) == Len(t) >= TitleMinLength /\ Len(t) <= TitleMaxLength
ValidText(t) == Len(t) >= TextMinLength

\* DocumentCreate: both fields required and constrained.
DocumentCreate(payload) ==
    /\ payload.title # None /\ ValidTitle(payload.title)
    /\ payload.text # None /\ ValidText(payload.text)

\* DocumentUpdate: both fields optional (None), constrained when given.
DocumentUpdate(payload) ==
    /\ payload.title = None \/ ValidTitle(payload.title)
    /\ payload.text = None \/ ValidText(payload.text)

-----------------------------------------------------------------------------
(* The dict _STORE: insertion-ordered, one entry per key *)

Keys(store) == {store[i].key : i \in 1..Len(store)}

Refs(store) == {store[i].ref : i \in 1..Len(store)}

\* _STORE.get(k): the reference held under k, or None
StoreGet(store, k) ==
    IF k \in Keys(store)
    THEN LET i == CHOOSE j \in 1..Len(store) : store[j].key = k IN store[i].ref
    ELSE NoRef

\* Variant: an assignment that always adds an entry, as a list would.
StoreSet_append(store, k, ref) == Append(store, [key |-> k, ref |-> ref])

\* _STORE[k] = ref: replaces in place when k is present, appends otherwise
StoreSet(store, k, ref) ==
    IF k \in Keys(store)
    THEN [i \in 1..Len(store) |->
            IF store[i].key = k THEN [key |-> k, ref |-> ref] ELSE store[i]]
    ELSE Append(store, [key |-> k, ref |-> ref])

\* del _STORE[k]
StoreDel(store, k) == SelectSeq(store, LAMBDA e : e.key # k)

\* A reference no object ever had.
NewRef ==
    1 + Max({0} \cup DOMAIN heap \cup {created[i].ref : i \in 1..Len(created)})

\* Objects no reference reaches are freed.
Collect(h, live) == [r \in (DOMAIN h) \cap live |-> h[r]]

\* The worker threads that run the handlers.
Threads == {"t1", "t2"}

\* A handler's local variables.
NoLocal == [doc_id |-> 0, tmp |-> 0, payload |-> [title |-> None, text |-> None],
            item |-> NoRef, created_at |-> 0]

\* References held by the handlers of loc.
HeldBy(loc) == {loc[p].item : p \in DOMAIN loc} \ {NoRef}

\* References held by handlers that are still running.
Held == HeldBy(local)

-----------------------------------------------------------------------------
(* Routing: paths are sequences of segments *)

Prefix == <<"api", "v1">>

DocsPath == <<"documents">>
DocPath == <<"documents", "{doc_id}">>

Route(method, path, endpoint) ==
    [method |-> method, path |-> path, endpoint |-> endpoint]

\* documents_mem.py: router = APIRouter(tags=["documents"]) and its decorators
documents_mem_router ==
    { Route("POST", DocsPath, "create_document"),
      Route("GET", DocsPath, "list_documents"),
      Route("GET", DocPath, "get_document"),
      Route("PUT", DocPath, "update_document"),
      Route("DELETE", DocPath, "delete_document") }

\* routes.py: router = APIRouter(prefix="/api/v1", tags=["v1"]) and its decorators
routes_router ==
    { Route("GET", Prefix \o <<"health">>, "health"),
      Route("POST", Prefix \o <<"segment">>, "segment"),
      Route("POST", Prefix \o <<"analyze">>, "analyze") }

include_router(router, prefix) ==
    { Route(r.method, prefix \o r.path, r.endpoint) : r \in router }

\* main.py: the routes of the application object
app ==
    include_router(documents_mem_router, Prefix)
        \cup { Route("GET", Prefix \o <<"health">>, "health") }

\* The endpoint a request is dispatched to; "404" when no route has the path,
\* "405" when one has the path under another method.
Resolve(method, path) ==
    IF \E r \in app : r.method = method /\ r.path = path
    THEN (CHOOSE r \in app : r.method = method /\ r.path = path).endpoint
    ELSE IF \E r \in app : r.path = path THEN "405" ELSE "404"

-----------------------------------------------------------------------------
(* documents_mem.py: the handlers, each as the response and the state it leaves *)

Result(status, body, store, nextId, h) ==
    [status |-> status, body |-> body, STORE |-> store, NEXT_ID |-> nextId,
     heap |-> h]

NotFound == Result(404, "Document not found", STORE, NEXT_ID, heap)

\* Variant: the counter is read but never incremented.
create_document_noinc(payload, t1, t2) ==
    LET doc_id == NEXT_ID
        item == [id |-> doc_id, title |-> payload.title, text |-> payload.text,
                 created_at |-> t1, updated_at |-> t2]
        ref == NewRef
    IN  Result(201, item, StoreSet(STORE, doc_id, ref), NEXT_ID,
               heap @@ (ref :> item))

\* Variant: the id is taken from the size of the store, not from the counter.
create_document_len(payload, t1, t2) ==
    LET doc_id == Len(STORE) + 1
        item == [id |-> doc_id, title |-> payload.title, text |-> payload.text,
                 created_at |-> t1, updated_at |-> t2]
        ref == NewRef
    IN  Result(201, item, StoreSet(STORE, doc_id, ref), NEXT_ID + 1,
               heap @@ (ref :> item))

\* t1, t2: the two readings of _now(), for created_at and updated_at
create_document(payload, t1, t2) ==
    LET doc_id == NEXT_ID
        item == [id |-> doc_id, title |-> payload.title, text |-> payload.text,
                 created_at |-> t1, updated_at |-> t2]
        ref == NewRef
    IN  Result(201, item, StoreSet(STORE, doc_id, ref), NEXT_ID + 1,
               heap @@ (ref :> item))

list_documents ==
    Result(200, [i \in 1..Len(STORE) |-> heap[STORE[i].ref]], STORE, NEXT_ID, heap)

get_document(doc_id) ==
    LET item == StoreGet(STORE, doc_id)
    IN  IF item = NoRef THEN NotFound
        ELSE Result(200, heap[item], STORE, NEXT_ID, heap)

\* Variant: text is assigned whether or not the payload carries one.
update_document_all(doc_id, payload, t) ==
    LET item == StoreGet(STORE, doc_id)
    IN  IF item = NoRef THEN NotFound
        ELSE LET d0 == heap[item]
                 d1 == IF payload.title # None
                       THEN [d0 EXCEPT !.title = payload.title] ELSE d0
                 d2 == [d1 EXCEPT !.text = payload.text]
                 d3 == [d2 EXCEPT !.updated_at = t]
             IN  Result(200, d3, StoreSet(STORE, doc_id, item), NEXT_ID,
                        [heap EXCEPT ![item] = d3])

\* t: the reading of _now() for updated_at
update_document(doc_id, payload, t) ==
    LET item == StoreGet(STORE, doc_id)
    IN  IF item = NoRef THEN NotFound
        ELSE LET d0 == heap[item]
                 d1 == IF payload.title # None
                       THEN [d0 EXCEPT !.title = payload.title] ELSE d0
                 d2 == IF payload.text # None
                       THEN [d1 EXCEPT !.text = payload.text] ELSE d1
                 d3 == [d2 EXCEPT !.updated_at = t]
             IN  Result(200, d3, StoreSet(STORE, doc_id, item), NEXT_ID,
                        [heap EXCEPT ![item] = d3])

delete_document(doc_id) ==
    IF doc_id \notin Keys(STORE) THEN NotFound
    ELSE LET store == StoreDel(STORE, doc_id)
         IN  Result(204, "", store, NEXT_ID, Collect(heap, Refs(store) \cup Held))

-----------------------------------------------------------------------------
(* routes.py: segment and analyze *)

\* the characters str.strip() removes, among those of the inputs
Whitespace == {" ", "\n", "\t"}

RECURSIVE lstrip(_)
lstrip(s) ==
    IF s # << >> /\ Head(s) \in Whitespace THEN lstrip(Tail(s)) ELSE s

RECURSIVE rstrip(_)
rstrip(s) ==
    IF s # << >> /\ s[Len(s)] \in Whitespace
    THEN rstrip(SubSeq(s, 1, Len(s) - 1)) ELSE s

strip(s) == rstrip(lstrip(s))

StartsWith(s, sep) == Len(s) >= Len(sep) /\ SubSeq(s, 1, Len(sep)) = sep

\* str.find: the first index at which sep occurs in s, 0 when it does not
Find(s, sep) ==
    LET hits == {i \in 1..Len(s) : StartsWith(SubSeq(s, i, Len(s)), sep)}
    IN  IF hits = {} THEN 0 ELSE CHOOSE i \in hits : \A j \in hits : i <= j

\* str.split(sep): cuts at the occurrences of sep found left to right
RECURSIVE split(_, _)
split(s, sep) ==
    LET i == Find(s, sep)
    IN  IF i = 0 THEN <<s>>
        ELSE <<SubSeq(s, 1, i - 1)>> \o split(SubSeq(s, i + Len(sep), Len(s)), sep)

BlankLine == <<"\n", "\n">>

Clause(index, text) == [index |-> index, text |-> text, header |-> None]

\* Variant: the pieces are filtered on their stripped form but kept unstripped.
segment_nostrip(text) ==
    LET pieces == split(text, BlankLine)
        parts == SelectSeq(pieces, LAMBDA p : strip(p) # << >>)
        clauses == [i \in 1..Len(parts) |-> Clause(i, parts[i])]
    IN  IF clauses = << >>
        THEN IF strip(text) # << >> THEN <<Clause(1, strip(text))>> ELSE << >>
        ELSE clauses

segment(text) ==
    LET pieces == split(text, BlankLine)
        stripped == [i \in 1..Len(pieces) |-> strip(pieces[i])]
        parts == SelectSeq(stripped, LAMBDA p : p # << >>)
        clauses == [i \in 1..Len(parts) |-> Clause(i, parts[i])]
    IN  IF clauses = << >>
        THEN IF strip(text) # << >> THEN <<Clause(1, strip(text))>> ELSE << >>
        ELSE clauses

\* AnalyzeRequest: dup_threshold in hundredths, Field(0.85, ge=0.6, le=0.98);
\* Clause.index: Field(ge=1)
DupThresholdDefault == 85
DupThresholdMin == 60
DupThresholdMax == 98
ClauseIndexMin == 1

AnalyzeRequest(req) ==
    /\ \A i \in 1..Len(req.clauses) : req.clauses[i].index >= ClauseIndexMin
    /\ req.dup_threshold >= DupThresholdMin
    /\ req.dup_threshold <= DupThresholdMax

analyze(req) == [findings |-> << >>]

health == [status |-> "ok"]

-----------------------------------------------------------------------------
(* One request at a time, through the application *)

\* The request line of the last request, the status of its response and, for
\* the endpoints that keep no state, the body of the response.
Reply(method, path, status, body) ==
    [method |-> method, path |-> path, status |-> status, body |-> body]

Answered(method, path, status) == Reply(method, Prefix \o path, status, "")

Commit(r) ==
    /\ STORE' = r.STORE
    /\ NEXT_ID' = r.NEXT_ID
    /\ heap' = r.heap

DocIds == 1..MaxCreates

Payload(title, text) == [title |-> title, text |-> text]

\* Bodies of POST requests: valid at both title limits, one field out of
\* range, one field missing.
CreatePayloads ==
    { Payload(T3, <<"H">>), Payload(T200, <<"B">>),
      Payload(T2, <<"H">>), Payload(T201, <<"B">>), Payload(T3, << >>),
      Payload(None, <<"H">>) }

\* Bodies of PUT requests: title only, text only, neither, and one field valid
\* with the other out of range.
UpdatePayloads ==
    { Payload(T200, None), Payload(None, <<"B">>), Payload(None, None),
      Payload(T3, << >>), Payload(T2, <<"B">>) }

Init ==
    /\ STORE = << >>
    /\ NEXT_ID = 1
    /\ heap = [r \in {} |-> NoRef]
    /\ clock = 0
    /\ resp = Reply("", << >>, 0, "")
    /\ created = << >>
    /\ deleted = {}
    /\ nDeleted = 0
    /\ pc = [p \in Threads |-> "idle"]
    /\ local = [p \in Threads |-> NoLocal]
    /\ nCalls = 0
    /\ segText = << >>

Tick ==
    /\ clock < MaxClock
    /\ clock' = clock + 1
    /\ UNCHANGED <<storeVars, resp, histVars, threadVars, segVars>>

\* POST /api/v1/documents: the body is validated against DocumentCreate before
\* the handler is called
post_documents(payload, t1, t2) ==
    IF DocumentCreate(payload) THEN create_document(payload, t1, t2)
    ELSE Result(422, "validation", STORE, NEXT_ID, heap)

\* Variant: each field is validated as it is applied, so a valid title is
\* stored before an invalid text is rejected.
put_document_partial(doc_id, payload, t) ==
    IF DocumentUpdate(payload) THEN update_document(doc_id, payload, t)
    ELSE LET item == StoreGet(STORE, doc_id)
         IN  IF item # NoRef /\ payload.title # None /\ ValidTitle(payload.title)
             THEN Result(422, "validation", STORE, NEXT_ID,
                         [heap EXCEPT ![item].title = payload.title])
             ELSE Result(422, "validation", STORE, NEXT_ID, heap)

\* PUT /api/v1/documents/{doc_id}: the body is validated against DocumentUpdate
\* before the handler is called
put_document(doc_id, payload, t) ==
    IF DocumentUpdate(payload) THEN update_document(doc_id, payload, t)
    ELSE Result(422, "validation", STORE, NEXT_ID, heap)

\* The clock may advance (d) between the two readings create_document makes.
PostDocuments ==
    \E payload \in CreatePayloads, d \in 0..1 :
        /\ Resolve("POST", Prefix \o DocsPath) = "create_document"
        /\ clock + d <= MaxClock
        /\ LET r == post_documents(payload, clock, clock + d)
           IN  /\ r.status = 201 => Len(created) < MaxCreates
               /\ Commit(r)
               /\ resp' = Answered("POST", DocsPath, r.status)
               /\ created' =
                     IF r.status = 201
                     THEN Append(created, [id |-> r.body.id,
                                           ref |-> StoreGet(r.STORE, r.body.id),
                                           dels |-> nDeleted])
                     ELSE created
        /\ clock' = clock + d
        /\ UNCHANGED <<deleted, nDeleted, threadVars, segVars>>

\* GET /api/v1/documents
GetDocuments ==
    /\ Resolve("GET", Prefix \o DocsPath) = "list_documents"
    /\ LET r == list_documents
       IN  /\ Commit(r)
           /\ resp' = Answered("GET", DocsPath, r.status)
    /\ UNCHANGED <<clock, histVars, threadVars, segVars>>

\* GET /api/v1/documents/{doc_id}
GetDocument ==
    \E doc_id \in DocIds :
        /\ Resolve("GET", Prefix \o DocPath) = "get_document"
        /\ LET r == get_document(doc_id)
           IN  /\ Commit(r)
               /\ resp' = Answered("GET", DocPath, r.status)
        /\ UNCHANGED <<clock, histVars, threadVars, segVars>>

PutDocument ==
    \E doc_id \in DocIds, payload \in UpdatePayloads :
        /\ Resolve("PUT", Prefix \o DocPath) = "update_document"
        /\ LET r == put_document(doc_id, payload, clock)
           IN  /\ Commit(r)
               /\ resp' = Answered("PUT", DocPath, r.status)
        /\ UNCHANGED <<clock, histVars, threadVars, segVars>>

\* DELETE /api/v1/documents/{doc_id}
DeleteDocument ==
    \E doc_id \in DocIds :
        /\ Resolve("DELETE", Prefix \o DocPath) = "delete_document"
        /\ LET r == delete_document(doc_id)
           IN  /\ Commit(r)
               /\ resp' = Answered("DELETE", DocPath, r.status)
               /\ deleted' = IF r.status = 204 THEN deleted \cup {doc_id} ELSE deleted
               /\ nDeleted' = IF r.status = 204 THEN nDeleted + 1 ELSE nDeleted
        /\ UNCHANGED <<created, clock, threadVars, segVars>>

Next ==
    \/ Tick
    \/ PostDocuments
    \/ GetDocuments
    \/ GetDocument
    \/ PutDocument
    \/ DeleteDocument

Spec == Init /\ [][Next]_vars

-----------------------------------------------------------------------------
(* The endpoints that keep no state, on every short text: the segment       *)
(* handler of routes.py called directly, and requests to the application.   *)

Alphabet == {"A", "B", " ", "\n"}

Texts == UNION {[1..n -> Alphabet] : n \in 0..MaxLen}

ABText == <<"A", "\n", "\n", "B">>

InitSeg ==
    /\ STORE = << >>
    /\ NEXT_ID = 1
    /\ heap = [r \in {} |-> NoRef]
    /\ clock = 0
    /\ resp = Reply("", << >>, 0, "")
    /\ created = << >>
    /\ deleted = {}
    /\ nDeleted = 0
    /\ pc = [p \in Threads |-> "idle"]
    /\ local = [p \in Threads |-> NoLocal]
    /\ nCalls = 0
    /\ segText \in Texts

\* segment(SegmentRequest(text=segText)), with no routing in between
SegmentCall ==
    /\ resp.status = 0
    /\ resp' = Reply("", <<"segment">>, 200, [clauses |-> segment(segText)])
    /\ UNCHANGED <<storeVars, clock, histVars, threadVars, segVars>>

\* Requests to the stateless endpoints, with bodies made from text.
StatelessRequests(text) ==
    { [method |-> "GET", path |-> Prefix \o <<"health">>, body |-> << >>],
      [method |-> "POST", path |-> Prefix \o <<"segment">>,
       body |-> [text |-> text]],
      [method |-> "POST", path |-> Prefix \o <<"analyze">>,
       body |-> [clauses |-> segment(text),
                 dup_threshold |-> DupThresholdDefault]] }

\* The response of the application to a request for a stateless endpoint.
Serve(req) ==
    LET e == Resolve(req.method, req.path)
        answer(status, body) == Reply(req.method, req.path, status, body)
    IN  CASE e = "health" -> answer(200, health)
          [] e = "segment" -> answer(200, [clauses |-> segment(req.body.text)])
          [] e = "analyze" ->
                IF AnalyzeRequest(req.body) THEN answer(200, analyze(req.body))
                ELSE answer(422, "validation")
          [] e = "405" -> answer(405, "Method Not Allowed")
          [] OTHER -> answer(404, "Not Found")

StatelessRequest ==
    /\ resp.status = 0
    /\ \E req \in StatelessRequests(segText) : resp' = Serve(req)
    /\ UNCHANGED <<storeVars, clock, histVars, threadVars, segVars>>

NextSeg ==
    \/ SegmentCall
    \/ StatelessRequest

SpecSeg == InitSeg /\ [][NextSeg]_vars

-----------------------------------------------------------------------------
(* Handlers on worker threads, one statement at a time (documents_mem.py).    *)
(* Bodies reach the handlers already validated.                               *)

\* An idle thread takes the next request.
Begin(p) ==
    /\ pc[p] = "idle"
    /\ nCalls < MaxCalls
    /\ nCalls' = nCalls + 1

ThreadPayloads == { Payload(T3, <<"H">>), Payload(T200, None) }

Goto(p, label) == pc' = [pc EXCEPT ![p] = label]

\* The handler returns: the response goes to the caller, the locals are dropped.
Finish(p, method, path, status) ==
    /\ pc' = [pc EXCEPT ![p] = "idle"]
    /\ local' = [local EXCEPT ![p] = NoLocal]
    /\ resp' = Answered(method, path, status)

\* a request for create_document arrives
BeginCreate(p) ==
    /\ Begin(p)
    /\ \E payload \in ThreadPayloads :
          /\ DocumentCreate(payload)
          /\ local' = [local EXCEPT ![p] = [NoLocal EXCEPT !.payload = payload]]
    /\ Goto(p, "c_read")
    /\ UNCHANGED <<storeVars, clock, resp, histVars, segVars>>

\* doc_id = _NEXT_ID
CRead(p) ==
    /\ pc[p] = "c_read"
    /\ local' = [local EXCEPT ![p].doc_id = NEXT_ID]
    /\ Goto(p, "c_load")
    /\ UNCHANGED <<nCalls, storeVars, clock, resp, histVars, segVars>>

\* _NEXT_ID += 1: the load
CLoad(p) ==
    /\ pc[p] = "c_load"
    /\ local' = [local EXCEPT ![p].tmp = NEXT_ID]
    /\ Goto(p, "c_store")
    /\ UNCHANGED <<nCalls, storeVars, clock, resp, histVars, segVars>>

\* _NEXT_ID += 1: the store
CStore(p) ==
    /\ pc[p] = "c_store"
    /\ NEXT_ID' = local[p].tmp + 1
    /\ Goto(p, "c_now")
    /\ UNCHANGED <<nCalls, STORE, heap, local, clock, resp, histVars, segVars>>

\* "created_at": _now()
CNow(p) ==
    /\ pc[p] = "c_now"
    /\ local' = [local EXCEPT ![p].created_at = clock]
    /\ Goto(p, "c_item")
    /\ UNCHANGED <<nCalls, storeVars, clock, resp, histVars, segVars>>

\* "updated_at": _now(), and the dict is built
CItem(p) ==
    /\ pc[p] = "c_item"
    /\ LET ref == NewRef
           item == [id |-> local[p].doc_id, title |-> local[p].payload.title,
                    text |-> local[p].payload.text,
                    created_at |-> local[p].created_at, updated_at |-> clock]
       IN  /\ heap' = heap @@ (ref :> item)
           /\ local' = [local EXCEPT ![p].item = ref]
    /\ Goto(p, "c_set")
    /\ UNCHANGED <<nCalls, STORE, NEXT_ID, clock, resp, histVars, segVars>>

\* _STORE[doc_id] = item; return item
CSet(p) ==
    /\ pc[p] = "c_set"
    /\ LET store == StoreSet(STORE, local[p].doc_id, local[p].item)
           loc == [local EXCEPT ![p] = NoLocal]
       IN  /\ STORE' = store
           /\ heap' = Collect(heap, Refs(store) \cup HeldBy(loc))
           /\ created' = Append(created, [id |-> local[p].doc_id,
                                          ref |-> local[p].item,
                                          dels |-> nDeleted])
           /\ Finish(p, "POST", DocsPath, 201)
    /\ UNCHANGED <<nCalls, NEXT_ID, clock, deleted, nDeleted, segVars>>

\* a request for update_document arrives
BeginUpdate(p) ==
    /\ Begin(p)
    /\ \E doc_id \in DocIds, payload \in ThreadPayloads :
          /\ DocumentUpdate(payload)
          /\ local' = [local EXCEPT ![p] =
                          [NoLocal EXCEPT !.doc_id = doc_id, !.payload = payload]]
    /\ Goto(p, "u_get")
    /\ UNCHANGED <<storeVars, clock, resp, histVars, segVars>>

\* item = _STORE.get(doc_id); if not item: raise 404
UGet(p) ==
    /\ pc[p] = "u_get"
    /\ LET item == StoreGet(STORE, local[p].doc_id)
       IN  IF item = NoRef
           THEN Finish(p, "PUT", DocPath, 404)
           ELSE /\ local' = [local EXCEPT ![p].item = item]
                /\ Goto(p, "u_title")
                /\ UNCHANGED resp
    /\ UNCHANGED <<nCalls, storeVars, clock, histVars, segVars>>

\* if payload.title is not None: item["title"] = payload.title
UTitle(p) ==
    /\ pc[p] = "u_title"
    /\ heap' = IF local[p].payload.title # None
               THEN [heap EXCEPT ![local[p].item].title = local[p].payload.title]
               ELSE heap
    /\ Goto(p, "u_text")
    /\ UNCHANGED <<nCalls, STORE, NEXT_ID, local, clock, resp, histVars, segVars>>

\* if payload.text is not None: item["text"] = payload.text
UText(p) ==
    /\ pc[p] = "u_text"
    /\ heap' = IF local[p].payload.text # None
               THEN [heap EXCEPT ![local[p].item].text = local[p].payload.text]
               ELSE heap
    /\ Goto(p, "u_now")
    /\ UNCHANGED <<nCalls, STORE, NEXT_ID, local, clock, resp, histVars, segVars>>

\* item["updated_at"] = _now()
UNow(p) ==
    /\ pc[p] = "u_now"
    /\ heap' = [heap EXCEPT ![local[p].item].updated_at = clock]
    /\ Goto(p, "u_set")
    /\ UNCHANGED <<nCalls, STORE, NEXT_ID, local, clock, resp, histVars, segVars>>

\* _STORE[doc_id] = item; return item
USet(p) ==
    /\ pc[p] = "u_set"
    /\ LET store == StoreSet(STORE, local[p].doc_id, local[p].item)
           loc == [local EXCEPT ![p] = NoLocal]
       IN  /\ STORE' = store
           /\ heap' = Collect(heap, Refs(store) \cup HeldBy(loc))
           /\ Finish(p, "PUT", DocPath, 200)
    /\ UNCHANGED <<nCalls, NEXT_ID, clock, histVars, segVars>>

\* a request for delete_document arrives
BeginDelete(p) ==
    /\ Begin(p)
    /\ \E doc_id \in DocIds :
          local' = [local EXCEPT ![p] = [NoLocal EXCEPT !.doc_id = doc_id]]
    /\ Goto(p, "d_check")
    /\ UNCHANGED <<storeVars, clock, resp, histVars, segVars>>

\* if doc_id not in _STORE: raise 404
DCheck(p) ==
    /\ pc[p] = "d_check"
    /\ IF local[p].doc_id \notin Keys(STORE)
       THEN Finish(p, "DELETE", DocPath, 404)
       ELSE Goto(p, "d_del") /\ UNCHANGED <<local, resp>>
    /\ UNCHANGED <<nCalls, storeVars, clock, histVars, segVars>>

\* del _STORE[doc_id]; return None.  A key that is gone raises KeyError, which
\* generic_exception_handler of main.py answers with 500.
DDel(p) ==
    /\ pc[p] = "d_del"
    /\ IF local[p].doc_id \in Keys(STORE)
       THEN LET store == StoreDel(STORE, local[p].doc_id)
            IN  /\ STORE' = store
                /\ heap' = Collect(heap, Refs(store) \cup Held)
                /\ deleted' = deleted \cup {local[p].doc_id}
                /\ nDeleted' = nDeleted + 1
                /\ Finish(p, "DELETE", DocPath, 204)
       ELSE /\ Finish(p, "DELETE", DocPath, 500)
            /\ UNCHANGED <<STORE, heap, deleted, nDeleted>>
    /\ UNCHANGED <<nCalls, NEXT_ID, clock, created, segVars>>

NextConc ==
    \E p \in Threads :
        \/ BeginCreate(p) \/ CRead(p) \/ CLoad(p) \/ CStore(p)
        \/ CNow(p) \/ CItem(p) \/ CSet(p)
        \/ BeginUpdate(p) \/ UGet(p) \/ UTitle(p) \/ UText(p)
        \/ UNow(p) \/ USet(p)
        \/ BeginDelete(p) \/ DCheck(p) \/ DDel(p)

SpecConc == Init /\ [][NextConc]_vars

-----------------------------------------------------------------------------
(* Properties of sequential runs (Spec) *)

IsCall(method, path) == resp.method = method /\ resp.path = Prefix \o path

Doc(store, h, doc_id) == h[StoreGet(store, doc_id)]

LastCreated == created[Len(created)]

\* C1: the first create returns id 1 and every later create returns an id
\* strictly greater than every id returned before, deletes in between or not.
C1_IdsStrictlyIncreasing ==
    /\ Len(created) >= 1 => created[1].id = 1
    /\ \A i, j \in 1..Len(created) : i < j => created[i].id < created[j].id

\* Two creates with a delete of the first document between them.
C1_Witness ==
    /\ Len(created) = 2
    /\ created[2].dels >= 1
    /\ created[1].id \in deleted
    /\ created[2].id \in Keys(STORE)

\* C2: right after a successful create, get on the returned id gives a
\* document with the title and text of a request body and with
\* created_at = updated_at.
C2_CreateThenGet ==
    (IsCall("POST", DocsPath) /\ resp.status = 201) =>
        LET g == get_document(LastCreated.id)
        IN  /\ g.status = 200
            /\ \E payload \in CreatePayloads :
                    /\ g.body.title = payload.title
                    /\ g.body.text = payload.text
            /\ g.body.created_at = g.body.updated_at

\* C3: an id whose delete succeeded is absent: get and a second delete answer
\* 404, no id is deleted twice, and later creates do not bring it back.
C3_DeletedStaysAbsent ==
    /\ \A id \in deleted :
            /\ id \notin Keys(STORE)
            /\ get_document(id).status = 404
            /\ delete_document(id).status = 404
    /\ nDeleted = Cardinality(deleted)

\* A get answered 404 while an id is deleted and a create has followed the
\* delete.
C3_Witness ==
    /\ IsCall("GET", DocPath)
    /\ resp.status = 404
    /\ deleted = {1}
    /\ Len(created) = 2
    /\ LastCreated.dels = 1
    /\ Keys(STORE) = {2}

\* C4: in every state, for every id and body, a successful update sets title
\* and text only where the body carries them, keeps id and created_at, does
\* not lower updated_at, and leaves every other document, the order of the
\* store and the counter as they were.
C4_UpdateFrame ==
    \A id \in DocIds, p \in UpdatePayloads :
        LET r == put_document(id, p, clock)
        IN  r.status = 200 =>
              /\ id \in Keys(STORE)
              /\ r.STORE = STORE
              /\ r.NEXT_ID = NEXT_ID
              /\ DOMAIN r.heap = DOMAIN heap
              /\ \A k \in Keys(STORE) \ {id} :
                     Doc(r.STORE, r.heap, k) = Doc(STORE, heap, k)
              /\ LET old == Doc(STORE, heap, id)
                     new == Doc(r.STORE, r.heap, id)
                 IN  /\ new.title = IF p.title # None THEN p.title ELSE old.title
                     /\ new.text = IF p.text # None THEN p.text ELSE old.text
                     /\ new.id = old.id
                     /\ new.created_at = old.created_at
                     /\ new.updated_at >= old.updated_at
                     /\ r.body = new

\* An update that carried only a title has been applied, at a later time, to
\* one of two documents.
C4_Witness ==
    /\ IsCall("PUT", DocPath)
    /\ resp.status = 200
    /\ Keys(STORE) = {1, 2}
    /\ LET d == Doc(STORE, heap, 1)
       IN  /\ d.title = T200
           /\ d.text = <<"H">>
           /\ d.updated_at > d.created_at

\* C5: list returns (creates) - (deletes) documents with distinct ids, the
\* ids created and not deleted; it is empty when there is none.
C5_ListCount ==
    LET l == list_documents.body
        ids == {l[i].id : i \in 1..Len(l)}
    IN  /\ list_documents.status = 200
        /\ Len(l) = Len(created) - nDeleted
        /\ Cardinality(ids) = Len(l)
        /\ ids = {created[i].id : i \in 1..Len(created)} \ deleted
        /\ Len(created) = nDeleted => l = << >>

\* A list of one document after two creates and a delete.
C5_Witness ==
    /\ IsCall("GET", DocsPath)
    /\ resp.status = 200
    /\ Len(created) = 2
    /\ nDeleted = 1
    /\ Len(list_documents.body) = 1

\* C6: in every state, for every id and body, a request answered with an
\* error (404, 422) leaves the store, the documents and the id counter
\* exactly as they were; a rejected create consumes no id.
C6_ErrorsChangeNothing ==
    LET Same(r) == r.STORE = STORE /\ r.NEXT_ID = NEXT_ID /\ r.heap = heap
        Error(r) == r.status \in {404, 422}
    IN  /\ \A p \in CreatePayloads, d \in 0..1 :
              LET r == post_documents(p, clock, clock + d)
              IN  /\ r.status = 422 <=> ~DocumentCreate(p)
                  /\ Error(r) => Same(r)
        /\ \A id \in DocIds, p \in UpdatePayloads :
              LET r == put_document(id, p, clock)
              IN  /\ ~DocumentUpdate(p) => r.status = 422
                  /\ (DocumentUpdate(p) /\ id \notin Keys(STORE)) => r.status = 404
                  /\ Error(r) => Same(r)
        /\ \A id \in DocIds :
              /\ id \notin Keys(STORE) => get_document(id).status = 404
              /\ id \notin Keys(STORE) => delete_document(id).status = 404
              /\ Same(get_document(id))
              /\ Error(delete_document(id)) => Same(delete_document(id))

\* An update has been rejected by validation while a document that a valid
\* title of the rejected body would have changed is in the store.
C6_Witness ==
    /\ IsCall("PUT", DocPath)
    /\ resp.status = 422
    /\ Keys(STORE) = {2}
    /\ Doc(STORE, heap, 2).title = T200
    /\ NEXT_ID = 3

-----------------------------------------------------------------------------
(* Properties of the stateless endpoints (SpecSeg) *)

\* C9: the application answers POST /api/v1/segment with 200 and the clauses,
\* and POST /api/v1/analyze with 200 and no findings.
C9_SegmentAndAnalyzeServed ==
    /\ IsCall("POST", <<"segment">>) =>
          /\ resp.status = 200
          /\ resp.body = [clauses |-> segment(segText)]
    /\ IsCall("POST", <<"analyze">>) =>
          /\ resp.status = 200
          /\ resp.body = [findings |-> << >>]

AllWhitespace(s) == \A i \in 1..Len(s) : s[i] \in Whitespace

Trimmed(s) == s # << >> /\ s[1] \notin Whitespace /\ s[Len(s)] \notin Whitespace

\* x is p without its leading and trailing whitespace
IsTrimOf(x, p) ==
    \E a \in 0..Len(p) : \E b \in a..Len(p) :
        /\ x = SubSeq(p, a + 1, b)
        /\ AllWhitespace(SubSeq(p, 1, a))
        /\ AllWhitespace(SubSeq(p, b + 1, Len(p)))
        /\ x = << >> \/ Trimmed(x)

RECURSIVE Join(_, _)
Join(ps, sep) ==
    IF Len(ps) = 1 THEN ps[1] ELSE ps[1] \o sep \o Join(Tail(ps), sep)

Contains(s, sep) ==
    \E i \in 1..Len(s) : StartsWith(SubSeq(s, i, Len(s)), sep)

IsSegmentCall == resp.path = <<"segment">> /\ resp.status = 200

\* C8: the clauses are the pieces between blank lines, trimmed, the empty ones
\* dropped, in order, indexed from 1; a text with content and no blank line
\* gives one clause, its trimmed whole; "A\n\nB" gives "A" and "B"; the result
\* is empty exactly when the text is all whitespace.
C8_SegmentPieces ==
    IsSegmentCall =>
        LET out == resp.body.clauses
            pieces == split(segText, BlankLine)
            kept == SelectSeq(pieces, LAMBDA p : ~AllWhitespace(p))
        IN  /\ Join(pieces, BlankLine) = segText
            /\ \A i \in 1..Len(pieces) : ~Contains(pieces[i], BlankLine)
            /\ Len(out) = Len(kept)
            /\ \A i \in 1..Len(out) :
                    /\ out[i].index = i
                    /\ Trimmed(out[i].text)
                    /\ IsTrimOf(out[i].text, kept[i])
            /\ (~Contains(segText, BlankLine) /\ ~AllWhitespace(segText)) =>
                    /\ Len(out) = 1
                    /\ IsTrimOf(out[1].text, segText)
            /\ segText = ABText =>
                    out = <<Clause(1, <<"A">>), Clause(2, <<"B">>)>>
            /\ out = << >> <=> AllWhitespace(segText)

\* Two clauses from a text with padding around a blank line.
C8_Witness ==
    /\ IsSegmentCall
    /\ segText = <<" ", "A", "\n", "\n", "B">>
    /\ resp.body.clauses = <<Clause(1, <<"A">>), Clause(2, <<"B">>)>>

-----------------------------------------------------------------------------
(* Properties of concurrent runs (SpecConc) *)

\* Two creates that returned the same id.
SameId(i, j) == i < j /\ created[i].id = created[j].id

\* C7: when two creates have returned the same id, the store holds at most
\* one of the two documents they created.
C7_DuplicateIdLosesDocument ==
    \A i, j \in 1..Len(created) :
        SameId(i, j) =>
            ~(created[i].ref \in Refs(STORE) /\ created[j].ref \in Refs(STORE))

\* Two concurrent creates have returned the same id and, with no delete, the
\* store holds one document.
C7_Witness ==
    /\ Len(created) = 2
    /\ SameId(1, 2)
    /\ nDeleted = 0
    /\ Len(STORE) = 1
    /\ \A p \in Threads : pc[p] = "idle"

\* C10: once a delete of an id has succeeded, no document with that id is in
\* the store (stated for the runs in which no id was issued twice).
C10_DeletedStaysDeleted ==
    (\A i, j \in 1..Len(created) : ~SameId(i, j)) =>
        \A id \in deleted : id \notin Keys(STORE)

====
